---------------------------- MODULE Spec2Model ----------------------------
(***************************************************************************)
(* video-journal: the command-line pipeline  video -> transcript -> blog   *)
(* post -> output file.  The model follows the variant with validation and *)
(* timeouts: main/validateOutputPath/run (src/unnamed/part_004),           *)
(* TranscribeVideo/extractAudio (src/unnamed/part_000) and                 *)
(* ConvertToBlog/loadStyleGuide (src/internal/blog/blog.go).               *)
(*                                                                         *)
(* A Go string is a sequence of one-character strings, so that the path    *)
(* and trimming functions are computed as the library computes them.  The  *)
(* file system is a map from absolute component lists to entries; there    *)
(* are no symbolic links in it.                                            *)
(***************************************************************************)
EXTENDS Integers, Sequences, FiniteSets, TLC

(***************************************************************************)
(* strings                                                                 *)
(***************************************************************************)
SEP == "/"
DOT == "."

\* strings.HasPrefix
HasPrefix(s, prefix) ==
    /\ Len(s) >= Len(prefix)
    /\ SubSeq(s, 1, Len(prefix)) = prefix

\* strings.HasSuffix
HasSuffix(s, suffix) ==
    /\ Len(s) >= Len(suffix)
    /\ SubSeq(s, Len(s) - Len(suffix) + 1, Len(s)) = suffix

\* strings.TrimSuffix
TrimSuffix(s, suffix) ==
    IF HasSuffix(s, suffix) THEN SubSeq(s, 1, Len(s) - Len(suffix)) ELSE s

\* the upper-case letters of the model's alphabet and their lower-case forms
LowerOf(c) ==
    CASE c = "M" -> "m"
      [] c = "P" -> "p"
      [] c = "O" -> "o"
      [] c = "V" -> "v"
      [] OTHER -> c

\* strings.ToLower
ToLower(s) == [i \in 1..Len(s) |-> LowerOf(s[i])]

\* unicode.IsSpace on the characters of the model's alphabet
IsSpace(c) == c \in {" ", "\t", "\n", "\r"}

RECURSIVE TrimLeft(_)
TrimLeft(s) ==
    IF s # <<>> /\ IsSpace(Head(s)) THEN TrimLeft(Tail(s)) ELSE s

RECURSIVE TrimRight(_)
TrimRight(s) ==
    IF s # <<>> /\ IsSpace(s[Len(s)]) THEN TrimRight(SubSeq(s, 1, Len(s) - 1)) ELSE s

\* strings.TrimSpace
TrimSpace(s) == TrimRight(TrimLeft(s))

\* a long run of text in a string, held as one element: two bytes short of
\* 500000, none of them white space
LongRun == "<a long run of speech>"
LongRunBytes == 500000 - 2

\* len(s), in bytes
RECURSIVE ByteLen(_)
ByteLen(s) ==
    IF s = <<>> THEN 0
    ELSE (IF Head(s) = LongRun THEN LongRunBytes ELSE 1) + ByteLen(Tail(s))

(***************************************************************************)
(* path/filepath (Unix)                                                    *)
(***************************************************************************)
\* the index of the last separator of path, 0 if there is none
RECURSIVE LastSep(_, _)
LastSep(path, i) ==
    IF i = 0 THEN 0
    ELSE IF path[i] = SEP THEN i
    ELSE LastSep(path, i - 1)

\* filepath.Ext: the suffix beginning at the final dot in the final element
RECURSIVE ExtFrom(_, _)
ExtFrom(path, i) ==
    IF i = 0 \/ path[i] = SEP THEN <<>>
    ELSE IF path[i] = DOT THEN SubSeq(path, i, Len(path))
    ELSE ExtFrom(path, i - 1)

Ext(path) == ExtFrom(path, Len(path))

RECURSIVE StripTrailingSeps(_)
StripTrailingSeps(path) ==
    IF path # <<>> /\ path[Len(path)] = SEP
    THEN StripTrailingSeps(SubSeq(path, 1, Len(path) - 1))
    ELSE path

\* filepath.Base
Base(path) ==
    IF path = <<>> THEN <<DOT>>
    ELSE LET p == StripTrailingSeps(path)
             q == SubSeq(p, LastSep(p, Len(p)) + 1, Len(p))
         IN  IF q = <<>> THEN <<SEP>> ELSE q

\* the elements of path between separators, empty ones included
RECURSIVE Split(_)
Split(path) ==
    LET i == LastSep(path, Len(path))
    IN  IF i = 0 THEN <<path>>
        ELSE Append(Split(SubSeq(path, 1, i - 1)), SubSeq(path, i + 1, Len(path)))

RECURSIVE JoinElems(_)
JoinElems(elems) ==
    IF elems = <<>> THEN <<>>
    ELSE IF Len(elems) = 1 THEN elems[1]
    ELSE elems[1] \o <<SEP>> \o JoinElems(Tail(elems))

filepathIsAbs(path) == path # <<>> /\ path[1] = SEP

\* the element list of Clean: "." and "" dropped, ".." cancelling the element
\* before it, kept at the front of a relative path, dropped at the root
RECURSIVE CleanElems(_, _, _)
CleanElems(elems, out, rooted) ==
    IF elems = <<>> THEN out
    ELSE LET e == Head(elems)
             rest == Tail(elems)
         IN  IF e = <<>> \/ e = <<DOT>> THEN CleanElems(rest, out, rooted)
             ELSE IF e = <<DOT, DOT>>
             THEN IF out # <<>> /\ out[Len(out)] # <<DOT, DOT>>
                  THEN CleanElems(rest, SubSeq(out, 1, Len(out) - 1), rooted)
                  ELSE IF rooted THEN CleanElems(rest, out, rooted)
                  ELSE CleanElems(rest, Append(out, e), rooted)
             ELSE CleanElems(rest, Append(out, e), rooted)

\* filepath.Clean
Clean(path) ==
    IF path = <<>> THEN <<DOT>>
    ELSE LET rooted == filepathIsAbs(path)
             body == JoinElems(CleanElems(Split(path), <<>>, rooted))
         IN  IF rooted THEN <<SEP>> \o body
             ELSE IF body = <<>> THEN <<DOT>> ELSE body

\* filepath.Dir
Dir(path) == Clean(SubSeq(path, 1, LastSep(path, Len(path))))

\* the elements of a cleaned absolute path ("/" has none)
AbsElems(path) == CleanElems(Split(path), <<>>, TRUE)

RECURSIVE CommonLen(_, _)
CommonLen(a, b) ==
    IF a # <<>> /\ b # <<>> /\ Head(a) = Head(b)
    THEN 1 + CommonLen(Tail(a), Tail(b))
    ELSE 0

\* filepath.Rel for two absolute paths: [ok, path]
Rel(basepath, targpath) ==
    LET base == Clean(basepath)
        targ == Clean(targpath)
        be == AbsElems(base)
        te == AbsElems(targ)
        k == CommonLen(be, te)
        bRest == SubSeq(be, k + 1, Len(be))
        tRest == SubSeq(te, k + 1, Len(te))
    IN  IF targ = base THEN [ok |-> TRUE, path |-> <<DOT>>]
        ELSE IF filepathIsAbs(base) # filepathIsAbs(targ)
        THEN [ok |-> FALSE, path |-> <<>>]
        ELSE IF bRest # <<>>
        THEN [ok |-> TRUE,
              path |-> JoinElems([i \in 1..Len(bRest) |-> <<DOT, DOT>>] \o tRest)]
        ELSE [ok |-> TRUE, path |-> JoinElems(tRest)]

(***************************************************************************)
(* the file system                                                         *)
(***************************************************************************)
\* the working directory of the process and os.TempDir()
Cwd == <<"/", "w">>
TempDir == <<"/", "t", "m", "p">>

Parent(elems) == IF elems = <<>> THEN <<>> ELSE SubSeq(elems, 1, Len(elems) - 1)

\* path resolution by the operating system from directory cur: every element
\* but the last must be a directory.  [err, at, final]: at is the entry found,
\* or with ENOENT the missing name, final telling that it is the last element
RECURSIVE Walk(_, _, _)
Walk(fsys, cur, rest) ==
    IF rest = <<>> THEN [err |-> "ok", at |-> cur, final |-> TRUE]
    ELSE IF fsys[cur].kind # "dir" THEN [err |-> "ENOTDIR", at |-> cur, final |-> FALSE]
    ELSE LET e == Head(rest)
         IN  IF e = <<>> \/ e = <<DOT>> THEN Walk(fsys, cur, Tail(rest))
             ELSE IF e = <<DOT, DOT>> THEN Walk(fsys, Parent(cur), Tail(rest))
             ELSE IF Append(cur, e) \notin DOMAIN fsys
             THEN [err |-> "ENOENT", at |-> Append(cur, e),
                   final |-> \A i \in 1..Len(Tail(rest)) : Tail(rest)[i] = <<>>]
             ELSE Walk(fsys, Append(cur, e), Tail(rest))

Lookup(fsys, path) ==
    IF path = <<>> THEN [err |-> "ENOENT", at |-> <<>>, final |-> FALSE]
    ELSE IF filepathIsAbs(path) THEN Walk(fsys, <<>>, Split(path))
    ELSE Walk(fsys, AbsElems(Cwd), Split(path))

\* the error of os.Stat(path)
StatErr(fsys, path) == Lookup(fsys, path).err

\* os.IsNotExist
IsNotExist(err) == err = "ENOENT"

\* os.ReadFile: [err, data]
ReadFile(fsys, path) ==
    LET l == Lookup(fsys, path)
    IN  IF l.err # "ok" THEN [err |-> l.err, data |-> <<>>]
        ELSE IF fsys[l.at].kind = "dir" THEN [err |-> "EISDIR", data |-> <<>>]
        ELSE [err |-> "ok", data |-> fsys[l.at].data]

File(data) == [kind |-> "file", data |-> data, size |-> Len(data)]
DirEntry == [kind |-> "dir", data |-> <<>>, size |-> 0]

\* fsys with the entry at elems set to entry
Put(fsys, elems, entry) ==
    [e \in DOMAIN fsys \cup {elems} |-> IF e = elems THEN entry ELSE fsys[e]]

\* os.Remove of a file; the error is ignored by every caller
Remove(fsys, path) ==
    LET l == Lookup(fsys, path)
    IN  IF l.err = "ok" /\ fsys[l.at].kind = "file"
        THEN [e \in DOMAIN fsys \ {l.at} |-> fsys[e]]
        ELSE fsys

\* os.WriteFile(path, data, 0644): OpenFile(O_WRONLY|O_CREATE|O_TRUNC), Write,
\* Close.  outcome is what the operating system does once the path resolves:
\* "ok", "open_fail" (the open is refused) or "write_fail" (the file is opened,
\* so created or truncated, and only the first written bytes of data arrive)
WriteFile(fsys, path, data, outcome, written) ==
    LET l == Lookup(fsys, path)
        creatable == \/ l.err = "ok" /\ fsys[l.at].kind = "file"
                     \/ l.err = "ENOENT" /\ l.final
    IN  IF ~creatable
        THEN [err |-> IF l.err = "ok" THEN "EISDIR" ELSE l.err, fs |-> fsys]
        ELSE IF outcome = "open_fail" THEN [err |-> "EACCES", fs |-> fsys]
        ELSE IF outcome = "write_fail"
        THEN [err |-> "ENOSPC", fs |-> Put(fsys, l.at, File(SubSeq(data, 1, written)))]
        ELSE [err |-> "ok", fs |-> Put(fsys, l.at, File(data))]

(***************************************************************************)
(* program constants                                                       *)
(***************************************************************************)
\* validVideoExtensions
validVideoExtensions ==
    { <<".", "m", "p", "4">>,
      <<".", "m", "o", "v">>,
      <<".", "a", "v", "i">>,
      <<".", "m", "k", "v">>,
      <<".", "w", "e", "b", "m">>,
      <<".", "m", "4", "v">>,
      <<".", "w", "m", "v">>,
      <<".", "f", "l", "v">> }

\* transcribe.ValidModels
ValidModels == {"tiny", "base", "small", "medium", "large"}

\* MaxVideoSize, 10GB; the size of a video file is counted in KiB
MaxVideoSize == 10 * 1024 * 1024

\* MaxTranscriptSize
MaxTranscriptSize == 500000

\* the output formats of whisper: the files it creates are outputBase.txt,
\* outputBase.vtt, outputBase.srt, ...
WhisperExtensions ==
    { <<".", "t", "x", "t">>,
      <<".", "v", "t", "t">>,
      <<".", "s", "r", "t">>,
      <<".", "j", "s", "o", "n">>,
      <<".", "c", "s", "v">>,
      <<".", "l", "r", "c">> }

\* a cleanup that knows only the format asked for with -otxt
extensionsTxtOnly == {<<".", "t", "x", "t">>}

\* the extensions cleanupWhisperOutputs removes
extensions == WhisperExtensions

DefaultStylePath == <<"s", "t", "y", "l", "e", "_", "g", "u", "i", "d", "e", ".", "m", "d">>
MdExt == <<".", "m", "d">>

\* getDefaultStyleGuide(): the built-in text, one token
DefaultStyleGuide == <<"Write in a conversational, engaging tone. ...">>

(***************************************************************************)
(* bounds and the inputs of the model                                      *)
(***************************************************************************)
\* how many random suffixes os.CreateTemp can draw
MaxTemp == 2
\* the longest prefix of the data a failed write leaves behind
MaxPartial == 1

\* the positional arguments: none, or one video path
ArgLists ==
    { <<>>,
      <<<<"t", "a", "l", "k", ".", "m", "p", "4">>>>,
      <<<<"d", "/", "v", ".", "M", "O", "V">>>>,
      <<<<"t", "a", "l", "k", ".", "t", "x", "t">>>>,
      <<<<"d", ".", "m", "p", "4", "/", "t", "a", "l", "k">>>> }

ModelFlags == {"base", "Base", "huge"}

StyleFlags ==
    { <<>>,
      <<"s", "t", "y", "l", "e", "_", "g", "u", "i", "d", "e", ".", "m", "d">>,
      <<".", "/", "s", "t", "y", "l", "e", "_", "g", "u", "i", "d", "e", ".", "m", "d">>,
      <<"d">> }

OutputFlags ==
    { <<>>,
      <<"d", "/", "o", "u", "t", ".", "m", "d">>,
      <<".", ".", "/", "o", "u", "t", ".", "m", "d">>,
      <<"/", "t", "m", "p", "/", "x", ".", "m", "d">>,
      <<"n", "o", "d", "i", "r", "/", "o", "u", "t", ".", "m", "d">>,
      <<"t", "a", "l", "k", ".", "m", "p", "4", "/", "p", "o", "s", "t", ".", "m", "d">>,
      <<"t", "a", "l", "k", ".", "m", "p", "4", "/", "x", "/", "p", "o", "s", "t", ".", "m", "d">>,
      <<".", ".", "o", "u", "t", ".", "m", "d">>,
      <<"d", "/", ".", ".", "/", ".", ".", "/", "w", "/", "o", "u", "t", ".", "m", "d">>,
      <<"d">> }

\* what the speech-to-text engine can put into the .txt file
Transcripts ==
    { <<>>,
      <<" ", "\n">>,
      <<"h", "e", "l", "l", "o", " ", "w", "o", "r", "l", "d">>,
      <<" ", "h", "i", "\n">>,
      <<" ", LongRun, "a", "b", "\n">>,
      <<LongRun, "a", "b", "c">> }

\* what the generation backend can print on its standard output
Generations ==
    { <<>>,
      <<"\n", " ">>,
      <<"#", " ", "T", "i", "t", "l", "e", "\n", "\n", "B", "o", "d", "y">>,
      <<"\n", "#", " ", "T", " ", "\n">> }

OldContent == <<"o", "l", "d">>
CustomGuide == <<"t", "e", "r", "s", "e">>

\* the file-system contents the runs start from
Dirs == { <<>>, AbsElems(Cwd), AbsElems(TempDir), Append(AbsElems(Cwd), <<"d">>) }

BaseFS == [e \in Dirs |-> DirEntry]

\* the elements a relative or absolute path names, resolved lexically
ElemsOf(path) ==
    IF filepathIsAbs(path) THEN AbsElems(path) ELSE AbsElems(Cwd \o <<SEP>> \o path)

\* fsys with a file at path when the directory above it exists
WithFile(fsys, path, entry) ==
    LET el == ElemsOf(path)
    IN  IF el # <<>> /\ Parent(el) \in DOMAIN fsys /\ fsys[Parent(el)].kind = "dir"
           /\ el \notin DOMAIN fsys
        THEN Put(fsys, el, entry)
        ELSE fsys

RECURSIVE WithFiles(_, _, _)
WithFiles(fsys, paths, entry) ==
    IF paths = {} THEN fsys
    ELSE LET q == CHOOSE x \in paths : TRUE
         IN  WithFiles(WithFile(fsys, q, entry), paths \ {q}, entry)

\* output files of an earlier run
StalePaths ==
    { <<"o", "u", "t", ".", "m", "d">>,
      <<"t", "a", "l", "k", ".", "m", "d">>,
      <<"v", ".", "m", "d">>,
      <<"d", "/", "o", "u", "t", ".", "m", "d">> }

StylePaths ==
    { <<"s", "t", "y", "l", "e", "_", "g", "u", "i", "d", "e", ".", "m", "d">> }

InitialFS(vargs, videoSize, stale, guides) ==
    LET f1 == IF vargs # <<>> /\ videoSize > 0
              THEN WithFile(BaseFS, vargs[1],
                            [kind |-> "file", data |-> <<"video">>, size |-> videoSize])
              ELSE BaseFS
        f2 == IF stale THEN WithFiles(f1, StalePaths, File(OldContent)) ELSE f1
    IN  IF guides THEN WithFiles(f2, StylePaths, File(CustomGuide)) ELSE f2

(***************************************************************************)
(* state                                                                   *)
(***************************************************************************)
VARIABLES
    args, modelFlag, styleFlag, outputFlag, forceFlag,  \* the command line
    fs,            \* the file system
    fs0,           \* the file system the process started with
    pc,            \* the position of the process
    videoPath, outputPath,                              \* locals of main
    exitCode,      \* -1 while running, then the code of os.Exit or of returning
    stderr,        \* the error reported, outermost message first
    stage,         \* the stage run has announced
    started,       \* how often each external program was started
    running,       \* the external program in flight, "none" if there is none
    killed,        \* the programs cancelled by their deadline
    audioPath, outputBase,                              \* locals of TranscribeVideo
    defers,        \* the deferred calls of TranscribeVideo, last registered last
    tvRet,         \* what TranscribeVideo returns: [val, err]
    transcript,    \* run's transcript
    styleGuide,    \* ConvertToBlog's styleGuide
    prompt,        \* the prompt handed to the generation backend
    output,        \* the standard output cmd.Output returned
    cbRet,         \* what ConvertToBlog returns: [val, err]
    runErr         \* what run returns

inputs == <<args, modelFlag, styleFlag, outputFlag, forceFlag, fs0>>
mainVars == <<videoPath, outputPath>>
tvVars == <<audioPath, outputBase, defers, tvRet>>
cbVars == <<styleGuide, prompt, output, cbRet>>
procVars == <<started, running, killed>>
vars == <<inputs, fs, pc, mainVars, exitCode, stderr, stage, procVars, tvVars,
          transcript, cbVars, runErr>>

Programs == {"ffmpeg", "whisper", "claude"}
NoErr == <<>>
None == <<"none">>

Init ==
    /\ args \in ArgLists
    /\ modelFlag \in ModelFlags
    /\ styleFlag \in StyleFlags
    /\ outputFlag \in OutputFlags
    /\ forceFlag \in BOOLEAN
    /\ \E videoSize \in {0, MaxVideoSize, MaxVideoSize + 1}, stale \in BOOLEAN,
          guides \in BOOLEAN :
          fs = InitialFS(args, videoSize, stale, guides)
    /\ fs0 = fs
    /\ pc = "main"
    /\ videoPath = None
    /\ outputPath = None
    /\ exitCode = -1
    /\ stderr = NoErr
    /\ stage = "Start"
    /\ started = [p \in Programs |-> 0]
    /\ running = "none"
    /\ killed = {}
    /\ audioPath = None
    /\ outputBase = None
    /\ defers = <<>>
    /\ tvRet = [val |-> <<>>, err |-> NoErr]
    /\ transcript = <<>>
    /\ styleGuide = <<>>
    /\ prompt = <<>>
    /\ output = <<>>
    /\ cbRet = [val |-> <<>>, err |-> NoErr]
    /\ runErr = NoErr

(***************************************************************************)
(* main                                                                    *)
(***************************************************************************)
\* fmt.Fprintf(os.Stderr, ...); os.Exit(1)
Exit1(msg) ==
    /\ stderr' = msg
    /\ exitCode' = 1
    /\ pc' = "exited"

\* flag.Parse and the check for the video path argument
MainParseArgs ==
    /\ pc = "main"
    /\ IF Len(args) < 1
       THEN Exit1(<<"usage">>) /\ UNCHANGED videoPath
       ELSE /\ videoPath' = args[1]
            /\ pc' = "main_ext"
            /\ UNCHANGED <<stderr, exitCode>>
    /\ UNCHANGED <<inputs, fs, outputPath, stage, procVars, tvVars, transcript,
                   cbVars, runErr>>

\* an extension check that forgets the allow-list
ValidExtensionAny(path) == Ext(path) # <<>>

\* whether main accepts the extension of the video path
ValidExtension(path) == ToLower(Ext(path)) \in validVideoExtensions

MainValidateExtension ==
    /\ pc = "main_ext"
    /\ IF ~ValidExtension(videoPath)
       THEN Exit1(<<"unsupported video format">>)
       ELSE pc' = "main_model" /\ UNCHANGED <<stderr, exitCode>>
    /\ UNCHANGED <<inputs, fs, mainVars, stage, procVars, tvVars, transcript,
                   cbVars, runErr>>

MainValidateModel ==
    /\ pc = "main_model"
    /\ IF modelFlag \notin ValidModels
       THEN Exit1(<<"invalid model size">>)
       ELSE pc' = "main_output" /\ UNCHANGED <<stderr, exitCode>>
    /\ UNCHANGED <<inputs, fs, mainVars, stage, procVars, tvVars, transcript,
                   cbVars, runErr>>

\* the output path main derives from the video path
DefaultOutputPath(path) ==
    LET baseName == Base(path)
        vidExt == Ext(baseName)
        nameWithoutExt == TrimSuffix(baseName, vidExt)
    IN  nameWithoutExt \o MdExt

MainDetermineOutput ==
    /\ pc = "main_output"
    /\ outputPath' = IF outputFlag = <<>> THEN DefaultOutputPath(videoPath)
                     ELSE outputFlag
    /\ pc' = "main_validate_output"
    /\ UNCHANGED <<inputs, fs, videoPath, exitCode, stderr, stage, procVars, tvVars,
                   transcript, cbVars, runErr>>

\* filepath.Abs
Abs(path) ==
    IF filepathIsAbs(path) THEN Clean(path) ELSE Clean(Cwd \o <<SEP>> \o path)

\* validateOutputPath: the error it returns, NoErr for nil
validateOutputPath(fsys, path) ==
    LET absPath == Abs(path)
        rel == Rel(Cwd, absPath)
        parentDir == Dir(absPath)
    IN  IF ~rel.ok THEN <<"invalid output path">>
        ELSE IF HasPrefix(rel.path, <<DOT, DOT>>)
        THEN <<"output path must be within current directory (no path traversal)">>
        ELSE IF IsNotExist(StatErr(fsys, parentDir))
        THEN <<"output directory does not exist">>
        ELSE NoErr

MainValidateOutputPath ==
    /\ pc = "main_validate_output"
    /\ LET err == validateOutputPath(fs, outputPath)
       IN  IF err # NoErr
           THEN Exit1(err)
           ELSE pc' = "main_overwrite" /\ UNCHANGED <<stderr, exitCode>>
    /\ UNCHANGED <<inputs, fs, mainVars, stage, procVars, tvVars, transcript,
                   cbVars, runErr>>

\* an overwrite check with the flag inverted
OverwriteRefusedInverted(fsys, force, path) == force /\ StatErr(fsys, path) = "ok"

\* the overwrite check: without --force an output path os.Stat finds is refused
OverwriteRefused(fsys, force, path) == ~force /\ StatErr(fsys, path) = "ok"

MainCheckOverwrite ==
    /\ pc = "main_overwrite"
    /\ IF OverwriteRefused(fs, forceFlag, outputPath)
       THEN Exit1(<<"output file already exists">>)
       ELSE pc' = "run" /\ UNCHANGED <<stderr, exitCode>>
    /\ UNCHANGED <<inputs, fs, mainVars, stage, procVars, tvVars, transcript,
                   cbVars, runErr>>

(***************************************************************************)
(* run, first step, and TranscribeVideo                                    *)
(***************************************************************************)
TxtExt == <<".", "t", "x", "t">>

\* the names os.CreateTemp makes in TempDir from the two patterns
AudioTempPath(n) ==
    TempDir \o <<SEP, "video-journal-audio-", ToString(n), ".", "w", "a", "v">>
TranscriptTempPath(n) ==
    TempDir \o <<SEP, "video-journal-transcript-", ToString(n)>>

\* the sets of output files one whisper run may leave behind
WhisperWrites ==
    {{}} \cup {{e} : e \in WhisperExtensions} \cup {WhisperExtensions}

\* return val, err: the deferred calls run next
TVReturn(val, err) ==
    /\ tvRet' = [val |-> val, err |-> err]
    /\ pc' = "tv_defers"

\* run: the announcement of step 1 and the call of TranscribeVideo
RunTranscribe ==
    /\ pc = "run"
    /\ stage' = "Transcribing"
    /\ pc' = "tv_stat"
    /\ UNCHANGED <<inputs, fs, mainVars, exitCode, stderr, procVars, tvVars,
                   transcript, cbVars, runErr>>

\* the check of the variant without a size ceiling
VideoErrorNoSizeCheck(fsys, path) ==
    IF IsNotExist(StatErr(fsys, path)) THEN <<"video file not found">> ELSE NoErr

\* the check of the video file: os.Stat(videoPath) and the size ceiling
VideoError(fsys, path) ==
    LET l == Lookup(fsys, path)
    IN  IF IsNotExist(l.err) THEN <<"video file not found">>
        ELSE IF l.err # "ok" THEN <<"cannot access video file">>
        ELSE IF fsys[l.at].size > MaxVideoSize THEN <<"video file too large">>
        ELSE NoErr

TVStatVideo ==
    /\ pc = "tv_stat"
    /\ IF VideoError(fs, videoPath) # NoErr
       THEN TVReturn(<<>>, VideoError(fs, videoPath))
       ELSE pc' = "tv_model" /\ UNCHANGED tvRet
    /\ UNCHANGED <<inputs, fs, mainVars, exitCode, stderr, stage, procVars,
                   audioPath, outputBase, defers, transcript, cbVars, runErr>>

\* EnsureModel: the model file is in the user's cache or not
TVEnsureModel ==
    /\ pc = "tv_model"
    /\ \E present \in BOOLEAN :
          IF ~present THEN TVReturn(<<>>, <<"whisper model not found">>)
          ELSE pc' = "tv_find" /\ UNCHANGED tvRet
    /\ UNCHANGED <<inputs, fs, mainVars, exitCode, stderr, stage, procVars,
                   audioPath, outputBase, defers, transcript, cbVars, runErr>>

\* findWhisperCLI, then the ffmpeg context and its deferred cancel
TVFindWhisperCLI ==
    /\ pc = "tv_find"
    /\ \E found \in BOOLEAN :
          IF ~found
          THEN TVReturn(<<>>, <<"whisper.cpp CLI not found">>) /\ UNCHANGED defers
          ELSE /\ defers' = Append(defers, "ffmpegCancel")
               /\ pc' = "ea_create"
               /\ UNCHANGED tvRet
    /\ UNCHANGED <<inputs, fs, mainVars, exitCode, stderr, stage, procVars,
                   audioPath, outputBase, transcript, cbVars, runErr>>

\* extractAudio: os.CreateTemp of the audio file
EACreateTemp ==
    /\ pc = "ea_create"
    /\ \/ /\ TVReturn(<<>>, <<"failed to create temp audio file">>)
          /\ UNCHANGED <<fs, audioPath>>
       \/ \E n \in 1..MaxTemp :
             /\ StatErr(fs, AudioTempPath(n)) = "ENOENT"
             /\ audioPath' = AudioTempPath(n)
             /\ fs' = Put(fs, ElemsOf(AudioTempPath(n)), File(<<>>))
             /\ pc' = "ea_start"
             /\ UNCHANGED tvRet
    /\ UNCHANGED <<inputs, mainVars, exitCode, stderr, stage, procVars,
                   outputBase, defers, transcript, cbVars, runErr>>

\* the cleanup closure of extractAudio
audioCleanup(fsys, path) == Remove(fsys, path)

\* an extractAudio that does not look at the context
FFmpegErrorNoDeadline(ctxExpired) == <<"ffmpeg audio extraction failed">>

\* the error extractAudio returns when cmd.Run failed
FFmpegError(ctxExpired) ==
    IF ctxExpired THEN <<"ffmpeg audio extraction timed out">>
    ELSE <<"ffmpeg audio extraction failed">>

\* extractAudio: cmd.Run starts ffmpeg, or fails to (ffmpeg is not installed)
EAStartFFmpeg ==
    /\ pc = "ea_start"
    /\ \/ /\ started' = [started EXCEPT !["ffmpeg"] = @ + 1]
          /\ running' = "ffmpeg"
          /\ pc' = "ea_wait"
          /\ UNCHANGED <<fs, tvRet, killed>>
       \/ /\ fs' = audioCleanup(fs, audioPath)
          /\ TVReturn(<<>>, FFmpegError(FALSE))
          /\ UNCHANGED procVars
    /\ UNCHANGED <<inputs, mainVars, exitCode, stderr, stage, audioPath,
                   outputBase, defers, transcript, cbVars, runErr>>

\* the ways an external program ends: it exits with status 0, it exits with
\* an error while the deadline has or has not passed, or the deadline passes
\* and the context kills it.  [status, ctxExpired]
Endings ==
    { [status |-> "ok", ctxExpired |-> FALSE],
      [status |-> "exit_error", ctxExpired |-> FALSE],
      [status |-> "exit_error", ctxExpired |-> TRUE],
      [status |-> "killed", ctxExpired |-> TRUE] }

\* the programs killed so far, with p added if this ending is a kill
Kill(p, ending) == IF ending.status = "killed" THEN killed \cup {p} ELSE killed

\* extractAudio: ffmpeg ends; on an error cleanup() and the error, else the
\* caller defers the cleanup
EAFFmpegExit ==
    /\ pc = "ea_wait"
    /\ \E ending \in Endings :
          /\ running' = "none"
          /\ killed' = Kill("ffmpeg", ending)
          /\ IF ending.status = "ok"
             THEN /\ fs' = Put(fs, ElemsOf(audioPath), File(<<"pcm">>))
                  /\ defers' = Append(defers, "audioCleanup")
                  /\ pc' = "tv_create_output"
                  /\ UNCHANGED tvRet
             ELSE /\ fs' = audioCleanup(Put(fs, ElemsOf(audioPath), File(<<"partial">>)),
                                        audioPath)
                  /\ TVReturn(<<>>, FFmpegError(ending.ctxExpired))
                  /\ UNCHANGED defers
    /\ UNCHANGED <<inputs, mainVars, exitCode, stderr, stage, started, audioPath,
                   outputBase, transcript, cbVars, runErr>>

\* os.CreateTemp of the transcript placeholder, which is closed and removed
\* at once; then the deferred cleanupWhisperOutputs, the whisper context and
\* its deferred cancel
TVCreateOutputTemp ==
    /\ pc = "tv_create_output"
    /\ \/ /\ TVReturn(<<>>, <<"failed to create temp output file">>)
          /\ UNCHANGED <<outputBase, defers>>
       \/ \E n \in 1..MaxTemp :
             /\ StatErr(fs, TranscriptTempPath(n)) = "ENOENT"
             /\ outputBase' = TranscriptTempPath(n)
             /\ defers' = defers \o <<"cleanupWhisperOutputs", "whisperCancel">>
             /\ pc' = "tv_whisper_start"
             /\ UNCHANGED tvRet
    /\ UNCHANGED <<inputs, fs, mainVars, exitCode, stderr, stage, procVars,
                   audioPath, transcript, cbVars, runErr>>

\* the error TranscribeVideo returns when cmd.CombinedOutput failed
WhisperError(ctxExpired) ==
    IF ctxExpired THEN <<"whisper transcription timed out">>
    ELSE <<"whisper transcription failed">>

\* cmd.CombinedOutput starts whisper, or fails to
TVStartWhisper ==
    /\ pc = "tv_whisper_start"
    /\ \/ /\ started' = [started EXCEPT !["whisper"] = @ + 1]
          /\ running' = "whisper"
          /\ pc' = "tv_whisper_wait"
          /\ UNCHANGED <<tvRet, killed>>
       \/ /\ TVReturn(<<>>, WhisperError(FALSE))
          /\ UNCHANGED procVars
    /\ UNCHANGED <<inputs, fs, mainVars, exitCode, stderr, stage, audioPath,
                   outputBase, defers, transcript, cbVars, runErr>>

\* fsys after whisper wrote the files outputBase+ext for ext in exts, the
\* .txt file holding text
RECURSIVE WhisperOutput(_, _, _, _)
WhisperOutput(fsys, base, exts, text) ==
    IF exts = {} THEN fsys
    ELSE LET e == CHOOSE x \in exts : TRUE
             data == IF e = TxtExt THEN text ELSE <<"subtitles">>
         IN  WhisperOutput(Put(fsys, ElemsOf(base \o e), File(data)), base,
                           exts \ {e}, text)

\* whisper ends, having written some of its output files
TVWhisperExit ==
    /\ pc = "tv_whisper_wait"
    /\ \E ending \in Endings, exts \in WhisperWrites, text \in Transcripts :
          /\ TxtExt \notin exts => text = <<>>
          /\ ending.status # "ok" => text = <<>>
          /\ fs' = WhisperOutput(fs, outputBase, exts, text)
          /\ running' = "none"
          /\ killed' = Kill("whisper", ending)
          /\ IF ending.status = "ok"
             THEN pc' = "tv_read" /\ UNCHANGED tvRet
             ELSE TVReturn(<<>>, WhisperError(ending.ctxExpired))
    /\ UNCHANGED <<inputs, mainVars, exitCode, stderr, stage, started, audioPath,
                   outputBase, defers, transcript, cbVars, runErr>>

\* a TranscribeVideo that returns whatever the file holds
TranscriptResultNoEmptyCheck(r) ==
    IF r.err # "ok" THEN [val |-> <<>>, err |-> <<"failed to read transcript">>]
    ELSE [val |-> TrimSpace(r.data), err |-> NoErr]

\* what TranscribeVideo makes of the transcript file: [val, err]
TranscriptResult(r) ==
    LET result == TrimSpace(r.data)
    IN  IF r.err # "ok" THEN [val |-> <<>>, err |-> <<"failed to read transcript">>]
        ELSE IF result = <<>>
        THEN [val |-> <<>>, err |-> <<"no speech detected in video">>]
        ELSE [val |-> result, err |-> NoErr]

\* os.ReadFile of the transcript, strings.TrimSpace and the empty check
TVReadTranscript ==
    /\ pc = "tv_read"
    /\ LET t == TranscriptResult(ReadFile(fs, outputBase \o TxtExt))
       IN  TVReturn(t.val, t.err)
    /\ UNCHANGED <<inputs, fs, mainVars, exitCode, stderr, stage, procVars,
                   audioPath, outputBase, defers, transcript, cbVars, runErr>>

\* the closure cleanupWhisperOutputs: os.Remove(outputBase + ext) for every
\* extension
RECURSIVE cleanupWhisperOutputs(_, _, _)
cleanupWhisperOutputs(fsys, base, exts) ==
    IF exts = {} THEN fsys
    ELSE LET e == CHOOSE x \in exts : TRUE
         IN  cleanupWhisperOutputs(Remove(fsys, base \o e), base, exts \ {e})

\* the file system after the deferred call d
Deferred(d, fsys) ==
    CASE d = "cleanupWhisperOutputs" ->
             cleanupWhisperOutputs(fsys, outputBase, extensions)
      [] d = "audioCleanup" -> audioCleanup(fsys, audioPath)
      [] OTHER -> fsys    \* a context's cancel

\* a return of TranscribeVideo runs the deferred calls, last registered first
TVRunDefer ==
    /\ pc = "tv_defers"
    /\ defers # <<>>
    /\ fs' = Deferred(defers[Len(defers)], fs)
    /\ defers' = SubSeq(defers, 1, Len(defers) - 1)
    /\ UNCHANGED <<inputs, pc, mainVars, exitCode, stderr, stage, procVars,
                   audioPath, outputBase, tvRet, transcript, cbVars, runErr>>

\* return err from run
RunReturn(err) ==
    /\ runErr' = err
    /\ stage' = IF err = NoErr THEN "Done" ELSE "Failed"
    /\ pc' = "run_returned"

\* run: TranscribeVideo has returned and its locals are gone; the error is
\* labelled, or step 2 is announced and ConvertToBlog called
RunAfterTranscribe ==
    /\ pc = "tv_defers"
    /\ defers = <<>>
    /\ IF tvRet.err # NoErr
       THEN RunReturn(<<"transcription failed">> \o tvRet.err) /\ UNCHANGED transcript
       ELSE /\ transcript' = tvRet.val
            /\ stage' = "Converting"
            /\ pc' = "cb_size"
            /\ UNCHANGED runErr
    /\ audioPath' = None
    /\ outputBase' = None
    /\ UNCHANGED <<inputs, fs, mainVars, exitCode, stderr, procVars, defers, tvRet,
                   cbVars>>

(***************************************************************************)
(* ConvertToBlog                                                           *)
(***************************************************************************)
CBReturn(val, err) ==
    /\ cbRet' = [val |-> val, err |-> err]
    /\ pc' = "cb_returned"

\* a size check that refuses the ceiling itself
TranscriptTooLargeAtCeiling(text) == ByteLen(text) >= MaxTranscriptSize

\* len(transcript) > MaxTranscriptSize
TranscriptTooLarge(text) == ByteLen(text) > MaxTranscriptSize

\* the transcript size check
CBCheckSize ==
    /\ pc = "cb_size"
    /\ IF TranscriptTooLarge(transcript)
       THEN CBReturn(<<>>, <<"transcript too large">>)
       ELSE pc' = "cb_style" /\ UNCHANGED cbRet
    /\ UNCHANGED <<inputs, fs, mainVars, exitCode, stderr, stage, procVars, tvVars,
                   transcript, styleGuide, prompt, output, runErr>>

\* the loader of the hosted-API variant: any missing guide is the default
loadStyleGuideLax(fsys, path) ==
    IF path = <<>> THEN [val |-> DefaultStyleGuide, err |-> NoErr]
    ELSE LET r == ReadFile(fsys, path)
         IN  IF r.err # "ok"
             THEN IF IsNotExist(r.err)
                  THEN [val |-> DefaultStyleGuide, err |-> NoErr]
                  ELSE [val |-> <<>>, err |-> <<"failed to read style guide">>]
             ELSE [val |-> r.data, err |-> NoErr]

\* loadStyleGuide: [val, err]
loadStyleGuide(fsys, path) ==
    IF path = <<>> THEN [val |-> DefaultStyleGuide, err |-> NoErr]
    ELSE LET r == ReadFile(fsys, path)
         IN  IF r.err # "ok"
             THEN IF IsNotExist(r.err)
                  THEN IF path = DefaultStylePath
                       THEN [val |-> DefaultStyleGuide, err |-> NoErr]
                       ELSE [val |-> <<>>, err |-> <<"style guide not found">>]
                  ELSE [val |-> <<>>, err |-> <<"failed to read style guide">>]
             ELSE [val |-> r.data, err |-> NoErr]

\* buildPrompt: the fixed template around the style guide and the transcript
buildPrompt(text, guide) ==
    <<"Convert the following video transcript ... ## Style Guide">> \o guide
    \o <<"## Instructions ... ## Transcript">> \o text \o <<"## Blog Post (Markdown)">>

\* the style guide is loaded and the prompt built
CBLoadStyleGuide ==
    /\ pc = "cb_style"
    /\ LET g == loadStyleGuide(fs, styleFlag)
       IN  IF g.err # NoErr
           THEN CBReturn(<<>>, g.err) /\ UNCHANGED <<styleGuide, prompt>>
           ELSE /\ styleGuide' = g.val
                /\ prompt' = buildPrompt(transcript, g.val)
                /\ pc' = "cb_claude_start"
                /\ UNCHANGED cbRet
    /\ UNCHANGED <<inputs, fs, mainVars, exitCode, stderr, stage, procVars, tvVars,
                   transcript, output, runErr>>

\* the error ConvertToBlog returns when cmd.Output failed
ClaudeError(ctxExpired) ==
    IF ctxExpired THEN <<"claude CLI timed out">> ELSE <<"claude CLI error">>

\* cmd.Output starts claude -p prompt, or fails to
CBStartClaude ==
    /\ pc = "cb_claude_start"
    /\ \/ /\ started' = [started EXCEPT !["claude"] = @ + 1]
          /\ running' = "claude"
          /\ pc' = "cb_claude_wait"
          /\ UNCHANGED <<cbRet, killed>>
       \/ /\ CBReturn(<<>>, ClaudeError(FALSE))
          /\ UNCHANGED procVars
    /\ UNCHANGED <<inputs, fs, mainVars, exitCode, stderr, stage, tvVars,
                   transcript, styleGuide, prompt, output, runErr>>

\* a result that is claude's standard output as it came
ClaudeResultUntrimmed(out) ==
    IF out = <<>>
    THEN [val |-> <<>>, err |-> <<"claude CLI returned empty output">>]
    ELSE [val |-> out, err |-> NoErr]

\* what ConvertToBlog makes of claude's standard output
ClaudeResult(out) ==
    LET result == TrimSpace(out)
    IN  IF result = <<>>
        THEN [val |-> <<>>, err |-> <<"claude CLI returned empty output">>]
        ELSE [val |-> result, err |-> NoErr]

\* claude ends; its output is trimmed and must not be empty
CBClaudeExit ==
    /\ pc = "cb_claude_wait"
    /\ \E ending \in Endings, out \in Generations :
          /\ ending.status # "ok" => out = <<>>
          /\ output' = out
          /\ running' = "none"
          /\ killed' = Kill("claude", ending)
          /\ IF ending.status # "ok"
             THEN CBReturn(<<>>, ClaudeError(ending.ctxExpired))
             ELSE CBReturn(ClaudeResult(out).val, ClaudeResult(out).err)
    /\ UNCHANGED <<inputs, fs, mainVars, exitCode, stderr, stage, started, tvVars,
                   transcript, styleGuide, prompt, runErr>>

(***************************************************************************)
(* run, steps 2 and 3, and the end of main                                 *)
(***************************************************************************)
\* the write of the variant without validation: no trailing newline
OutputBytesNoNewline(blogPost) == blogPost

\* the bytes run hands to os.WriteFile
OutputBytes(blogPost) == blogPost \o <<"\n">>

\* ConvertToBlog has returned: the error is labelled; else the post is
\* trimmed, must not be empty, and is written with a trailing newline
RunAfterConvert ==
    /\ pc = "cb_returned"
    /\ IF cbRet.err # NoErr
       THEN RunReturn(<<"blog conversion failed">> \o cbRet.err) /\ UNCHANGED fs
       ELSE LET blogPost == TrimSpace(cbRet.val)
            IN  IF blogPost = <<>>
                THEN RunReturn(<<"generated blog post is empty">>) /\ UNCHANGED fs
                ELSE /\ stage' = "Writing"
                     /\ pc' = "run_write"
                     /\ UNCHANGED <<fs, runErr>>
    /\ UNCHANGED <<inputs, mainVars, exitCode, stderr, procVars, tvVars, transcript,
                   cbVars>>

\* os.WriteFile(outputPath, blogPost+"\n", 0644)
RunWriteFile ==
    /\ pc = "run_write"
    /\ LET data == OutputBytes(TrimSpace(cbRet.val))
       IN  \E outcome \in {"ok", "open_fail", "write_fail"},
              written \in 0..MaxPartial :
              /\ outcome # "write_fail" => written = 0
              /\ written < Len(data)
              /\ LET w == WriteFile(fs, outputPath, data, outcome, written)
                 IN  /\ fs' = w.fs
                     /\ IF w.err # "ok"
                        THEN RunReturn(<<"failed to write output">>)
                        ELSE RunReturn(NoErr)
    /\ UNCHANGED <<inputs, mainVars, exitCode, stderr, procVars, tvVars, transcript,
                   cbVars>>

\* main: run has returned; an error is printed and the process exits with 1
MainRunReturned ==
    /\ pc = "run_returned"
    /\ IF runErr # NoErr
       THEN Exit1(runErr)
       ELSE /\ exitCode' = 0
            /\ pc' = "exited"
            /\ UNCHANGED stderr
    /\ UNCHANGED <<inputs, fs, mainVars, stage, procVars, tvVars, transcript,
                   cbVars, runErr>>

Next ==
    \/ MainParseArgs
    \/ MainValidateExtension
    \/ MainValidateModel
    \/ MainDetermineOutput
    \/ MainValidateOutputPath
    \/ MainCheckOverwrite
    \/ RunTranscribe
    \/ TVStatVideo
    \/ TVEnsureModel
    \/ TVFindWhisperCLI
    \/ EACreateTemp
    \/ EAStartFFmpeg
    \/ EAFFmpegExit
    \/ TVCreateOutputTemp
    \/ TVStartWhisper
    \/ TVWhisperExit
    \/ TVReadTranscript
    \/ TVRunDefer
    \/ RunAfterTranscribe
    \/ CBCheckSize
    \/ CBLoadStyleGuide
    \/ CBStartClaude
    \/ CBClaudeExit
    \/ RunAfterConvert
    \/ RunWriteFile
    \/ MainRunReturned

Spec == Init /\ [][Next]_vars

(***************************************************************************)
(* properties                                                              *)
(***************************************************************************)
NoneStarted == \A p \in Programs : started[p] = 0

\* the positions of main before run is called, and the exit
BeforeRun ==
    {"main", "main_ext", "main_model", "main_output", "main_validate_output",
     "main_overwrite", "exited"}

\* main never got to call run: no stage was announced, no external program
\* was started, no file was created, changed or removed, and an exit is an
\* exit with code 1
RejectedByMain ==
    /\ pc \in BeforeRun
    /\ stage = "Start"
    /\ NoneStarted
    /\ running = "none"
    /\ fs = fs0
    /\ pc = "exited" => exitCode = 1

\* TranscribeVideo has returned to run (its deferred calls have all run)
TVHasReturned == pc = "tv_defers" /\ defers = <<>>

\* no entry of the file system lies in the temporary directory
TempDirEmpty ==
    \A e \in DOMAIN fs :
        Len(e) > Len(AbsElems(TempDir)) =>
            SubSeq(e, 1, Len(AbsElems(TempDir))) # AbsElems(TempDir)

\* C1: once TranscribeVideo has returned, on whatever path, after it had
\* created the temporary audio file, that file does not exist, nor does any
\* whisper output file outputBase+ext; and nothing is left in the temporary
\* directory from then on.
C1_TempFilesRemoved ==
    /\ (TVHasReturned /\ audioPath # None) =>
          /\ StatErr(fs, audioPath) = "ENOENT"
          /\ outputBase # None =>
                \A ext \in WhisperExtensions :
                    StatErr(fs, outputBase \o ext) = "ENOENT"
    /\ (TVHasReturned \/ pc \in {"cb_size", "cb_style", "cb_claude_start",
                                 "cb_claude_wait", "cb_returned", "run_write",
                                 "run_returned", "exited"}) => TempDirEmpty

\* whisper was killed by its deadline after writing all of its output files,
\* and TranscribeVideo has returned
C1_Witness ==
    /\ TVHasReturned
    /\ audioPath # None
    /\ outputBase # None
    /\ "whisper" \in killed
    /\ tvRet.err = <<"whisper transcription timed out">>

\* the entry the output path names, "absent" when there is none
OutputEntry(fsys) ==
    LET l == Lookup(fsys, outputPath)
    IN  IF l.err = "ok" THEN fsys[l.at] ELSE [kind |-> "absent"]

\* C2: whenever run has returned an error, the output path has not been
\* created and, if it existed, its content is unchanged.
C2_NoPartialOutput ==
    (pc \in {"run_returned", "exited"} /\ runErr # NoErr) =>
        OutputEntry(fs) = OutputEntry(fs0)

\* C3: without --force, when the output path exists at the overwrite check
\* main exits with 1 before run is called (no external program is started,
\* no file is touched); and no file that existed when the process started is
\* ever changed or removed by a run without --force.
C3_NoOverwriteWithoutForce ==
    ~forceFlag =>
        /\ (outputPath # None /\ StatErr(fs0, outputPath) = "ok") => RejectedByMain
        /\ \A e \in DOMAIN fs0 : e \in DOMAIN fs /\ fs[e] = fs0[e]

\* main has refused to overwrite an existing output file
C3_Witness ==
    /\ pc = "exited"
    /\ ~forceFlag
    /\ StatErr(fs0, outputPath) = "ok"
    /\ stderr = <<"output file already exists">>
    /\ exitCode = 1

\* C4: an input path whose lower-cased extension is not in the allow-list,
\* or a --model value outside the fixed set, makes main exit with 1 before
\* run is called: no external program is started, no temporary file is
\* created, no transcription is attempted.
C4_BadExtensionOrModelRejected ==
    (/\ args # <<>>
     /\ \/ ToLower(Ext(args[1])) \notin validVideoExtensions
        \/ modelFlag \notin {"tiny", "base", "small", "medium", "large"}) =>
        /\ RejectedByMain
        /\ pc \notin {"main_output", "main_validate_output", "main_overwrite"}

\* main has exited on an extension outside the allow-list
C4_Witness ==
    /\ pc = "exited"
    /\ exitCode = 1
    /\ args # <<>>
    /\ ToLower(Ext(args[1])) \notin validVideoExtensions
    /\ stderr = <<"unsupported video format">>

\* ConvertToBlog has loaded, or failed to load, the style guide: it is past
\* loadStyleGuide and has not returned from the size check before it
StyleGuideLoaded ==
    /\ pc \in {"cb_claude_start", "cb_claude_wait", "cb_returned"}
    /\ cbRet.err # <<"transcript too large">>

\* ConvertToBlog has been called, now or earlier
ConvertCalled ==
    pc \in {"cb_size", "cb_style", "cb_claude_start", "cb_claude_wait", "cb_returned",
            "run_write", "run_returned", "exited"} /\ transcript # <<>>

\* the style path names no file: reading it reports that it does not exist
StyleMissing == ReadFile(fs0, styleFlag).err = "ENOENT"

\* C5: loadStyleGuide: an empty path gives the built-in default; a path that
\* does not exist gives the default without error exactly when it is the
\* string "style_guide.md", and otherwise the error "style guide not found",
\* after which the generation backend is never started; an existing readable
\* path gives the file's content.
C5_LoadStyleGuide ==
    /\ (StyleGuideLoaded /\ styleFlag = <<>>) =>
          styleGuide = DefaultStyleGuide /\ cbRet.err # <<"style guide not found">>
    /\ (StyleGuideLoaded /\ styleFlag # <<>> /\ StyleMissing) =>
          IF styleFlag = <<"s", "t", "y", "l", "e", "_", "g", "u", "i", "d", "e",
                           ".", "m", "d">>
          THEN /\ styleGuide = DefaultStyleGuide
               /\ cbRet.err \notin {<<"style guide not found">>,
                                    <<"failed to read style guide">>}
          ELSE /\ pc = "cb_returned"
               /\ cbRet.err = <<"style guide not found">>
    /\ (ConvertCalled /\ styleFlag # <<>> /\ StyleMissing
        /\ styleFlag # <<"s", "t", "y", "l", "e", "_", "g", "u", "i", "d", "e",
                         ".", "m", "d">>) =>
          started["claude"] = 0 /\ running = "none"
    /\ (StyleGuideLoaded /\ styleFlag # <<>> /\ ReadFile(fs0, styleFlag).err = "ok") =>
          /\ styleGuide = ReadFile(fs0, styleFlag).data
          /\ cbRet.err \notin {<<"style guide not found">>,
                               <<"failed to read style guide">>}

\* a style path that is not the conventional name and does not exist has
\* been refused
C5_Witness ==
    /\ pc = "cb_returned"
    /\ styleFlag = <<".", "/", "s", "t", "y", "l", "e", "_", "g", "u", "i", "d", "e",
                     ".", "m", "d">>
    /\ StyleMissing
    /\ cbRet.err = <<"style guide not found">>

\* the run has succeeded
Succeeded == pc = "exited" /\ runErr = NoErr /\ stage = "Done"

\* C6: on a successful run the output file holds exactly the trimmed
\* generation output and one newline, at the resolved output path; with no
\* --output flag that path is the base name of the input with its extension
\* replaced by ".md"; and the exit code is 0.
C6_OutputContent ==
    /\ Succeeded =>
          /\ exitCode = 0
          /\ ReadFile(fs, outputPath).err = "ok"
          /\ ReadFile(fs, outputPath).data = TrimSpace(output) \o <<"\n">>
          /\ TrimSpace(output) # <<>>
          /\ outputFlag # <<>> => outputPath = outputFlag
    /\ (outputPath # None /\ outputFlag = <<>>) =>
          /\ HasSuffix(outputPath, <<".", "m", "d">>)
          /\ \A i \in 1..Len(outputPath) : outputPath[i] # SEP
          /\ TrimSuffix(outputPath, <<".", "m", "d">>) \o Ext(args[1]) = Base(args[1])
    /\ (outputPath # None /\ outputFlag = <<>>
        /\ args[1] = <<"t", "a", "l", "k", ".", "m", "p", "4">>) =>
          outputPath = <<"t", "a", "l", "k", ".", "m", "d">>

\* the end-to-end example: talk.mp4, transcript "hello world", generation
\* "# Title\n\nBody", and talk.md holds "# Title\n\nBody\n"
C6_Witness ==
    /\ Succeeded
    /\ args = << <<"t", "a", "l", "k", ".", "m", "p", "4">> >>
    /\ outputFlag = <<>>
    /\ transcript = <<"h", "e", "l", "l", "o", " ", "w", "o", "r", "l", "d">>
    /\ output = <<"#", " ", "T", "i", "t", "l", "e", "\n", "\n", "B", "o", "d", "y">>
    /\ ReadFile(fs, <<"t", "a", "l", "k", ".", "m", "d">>).data =
          <<"#", " ", "T", "i", "t", "l", "e", "\n", "\n", "B", "o", "d", "y", "\n">>

\* the message of each program when its deadline passed, and when it failed
TimeoutMessage ==
    [p \in Programs |->
        CASE p = "ffmpeg" -> <<"ffmpeg audio extraction timed out">>
          [] p = "whisper" -> <<"whisper transcription timed out">>
          [] p = "claude" -> <<"claude CLI timed out">>]
FailureMessage ==
    [p \in Programs |->
        CASE p = "ffmpeg" -> <<"ffmpeg audio extraction failed">>
          [] p = "whisper" -> <<"whisper transcription failed">>
          [] p = "claude" -> <<"claude CLI error">>]
StageLabel ==
    [p \in Programs |->
        IF p = "claude" THEN <<"blog conversion failed">> ELSE <<"transcription failed">>]

\* the error of the call that ran program p, once that call has an error
CallError(p) == IF p = "claude" THEN cbRet.err ELSE tvRet.err

\* C7: when the deadline of an external program passes and the program is
\* killed, it is no longer in flight, its call returns the timeout message of
\* that program (not its failure message), no other program is started
\* afterwards, the output file is not written, and the process exits with 1
\* reporting the timeout.
C7_TimeoutSurfaces ==
    \A p \in Programs :
        p \in killed =>
            /\ running = "none"
            /\ killed = {p}
            /\ CallError(p) = TimeoutMessage[p]
            /\ CallError(p) # FailureMessage[p]
            /\ p = "ffmpeg" => started["whisper"] = 0 /\ started["claude"] = 0
            /\ p = "whisper" => started["claude"] = 0
            /\ \A q \in Programs : started[q] <= 1
            /\ OutputEntry(fs) = OutputEntry(fs0)
            /\ stage \notin {"Writing", "Done"}
            /\ pc \notin {"run_write"}
            /\ pc \in {"run_returned", "exited"} =>
                  runErr = StageLabel[p] \o TimeoutMessage[p]
            /\ pc = "exited" =>
                  exitCode = 1 /\ stderr = StageLabel[p] \o TimeoutMessage[p]

\* the process has exited after ffmpeg was killed by its deadline
C7_Witness ==
    /\ pc = "exited"
    /\ killed = {"ffmpeg"}
    /\ stderr = <<"transcription failed", "ffmpeg audio extraction timed out">>

\* the output path names a place outside the working directory
OutsideCwd(path) ==
    LET el == ElemsOf(path)
        cw == AbsElems(Cwd)
    IN  ~(Len(el) >= Len(cw) /\ SubSeq(el, 1, Len(cw)) = cw)

\* nothing exists at the place of the parent directory of the output path
ParentMissing(fsys, path) ==
    LET el == ElemsOf(path)
    IN  el = <<>> \/ Parent(el) \notin DOMAIN fsys

\* C8: validateOutputPath returns an error for every output path that
\* resolves outside the working directory or whose parent directory does not
\* exist, and main then exits with 1 before run is called.
C8_OutputPathValidated ==
    (outputPath # None /\ (OutsideCwd(outputPath) \/ ParentMissing(fs0, outputPath))) =>
        /\ RejectedByMain
        /\ pc # "main_overwrite"

\* the file system outside the temporary directory
NonTemp(fsys) ==
    LET keep == {e \in DOMAIN fsys :
                    ~(Len(e) > Len(AbsElems(TempDir))
                      /\ SubSeq(e, 1, Len(AbsElems(TempDir))) = AbsElems(TempDir))}
    IN  [e \in keep |-> fsys[e]]

StageOrder ==
    { <<"Start", "Transcribing">>, <<"Transcribing", "Converting">>,
      <<"Converting", "Writing">>, <<"Writing", "Done">>,
      <<"Transcribing", "Failed">>, <<"Converting", "Failed">>,
      <<"Writing", "Failed">> }

C9_Step ==
    /\ stage' # stage => <<stage, stage'>> \in StageOrder
    /\ (stage' = "Converting" /\ stage # "Converting") =>
          TVHasReturned /\ tvRet.err = NoErr /\ tvRet.val # <<>>
    /\ started'["claude"] # started["claude"] =>
          /\ stage = "Converting"
          /\ tvRet.err = NoErr
          /\ transcript = tvRet.val
          /\ transcript # <<>>
          /\ running = "none"
    /\ (stage' = "Writing" /\ stage # "Writing") =>
          pc = "cb_returned" /\ cbRet.err = NoErr /\ TrimSpace(cbRet.val) # <<>>
    /\ (fs' # fs /\ NonTemp(fs') # NonTemp(fs)) =>
          /\ stage = "Writing"
          /\ cbRet.err = NoErr
          /\ TrimSpace(cbRet.val) # <<>>
          /\ running = "none"
    /\ \A p \in Programs : started'[p] <= 1 /\ started'[p] >= started[p]
    /\ (stage' = "Failed" /\ stage # "Failed") => pc' = "run_returned" /\ runErr' # NoErr
    /\ stage \in {"Failed", "Done"} =>
          /\ stage' = stage
          /\ started' = started
          /\ running' = "none"
          /\ fs' = fs
          /\ pc' = "exited"

\* C9: the orchestrator is strictly linear, Start -> Transcribing ->
\* Converting -> Writing -> Done: the generation backend is started only
\* after TranscribeVideo returned a non-empty transcript, the output is
\* written only after ConvertToBlog returned a result that is non-empty when
\* trimmed, each external program is started at most once, and a failure of
\* a stage leads directly to the failed state, after which no stage is
\* entered, no program started and no file touched.
C9_LinearStages == [][C9_Step]_vars

\* a run that failed in the Converting stage after all three programs ran
C9_Witness ==
    /\ pc = "exited"
    /\ stage = "Failed"
    /\ \A p \in Programs : started[p] = 1
    /\ runErr = <<"blog conversion failed", "claude CLI returned empty output">>

\* the video named on the command line is missing or larger than the ceiling
VideoBad ==
    /\ args # <<>>
    /\ LET l == Lookup(fs0, args[1])
       IN  l.err # "ok" \/ fs0[l.at].size > 10 * 1024 * 1024

\* C10 as stated: every input validation error, a missing or oversized video
\* included, is reported with no pipeline stage entered and with no stage
\* label on the error.
C10_NoStageEntered ==
    VideoBad => /\ stage = "Start"
                /\ pc = "exited" => Len(stderr) = 1

\* the validation errors main itself finds
MainRejects ==
    /\ args # <<>>
    /\ \/ ToLower(Ext(args[1])) \notin validVideoExtensions
       \/ modelFlag \notin {"tiny", "base", "small", "medium", "large"}
       \/ outputPath # None /\ OutsideCwd(outputPath)
       \/ outputPath # None /\ ~forceFlag /\ StatErr(fs0, outputPath) = "ok"

\* C10, amended: a bad extension, a bad model name, an output path outside
\* the working directory and an existing output without --force are reported
\* by main with no stage entered and no stage label; a missing or oversized
\* video that gets past them is rejected inside the Transcribing stage by the
\* first check of TranscribeVideo, before any external program is started or
\* any file created, it ends the run (exit code 1), and its error carries
\* the label "transcription failed".
C10_ValidationErrors ==
    /\ MainRejects => RejectedByMain /\ (pc = "exited" => Len(stderr) = 1)
    /\ VideoBad =>
          /\ NoneStarted
          /\ running = "none"
          /\ fs = fs0
          /\ stage \in {"Start", "Transcribing", "Failed"}
          /\ pc \in BeforeRun \cup {"run", "tv_stat", "tv_defers", "run_returned"}
          /\ (pc = "exited" /\ stage # "Start") =>
                /\ exitCode = 1
                /\ stderr \in { <<"transcription failed", "video file not found">>,
                                <<"transcription failed", "video file too large">> }

\* a video over the ceiling has been refused by TranscribeVideo
C10_Witness ==
    /\ pc = "exited"
    /\ VideoBad
    /\ stage = "Failed"
    /\ stderr = <<"transcription failed", "video file too large">>

\* the style guide named on the command line can be loaded
StyleLoadable ==
    \/ styleFlag = <<>>
    \/ ReadFile(fs0, styleFlag).err = "ok"
    \/ /\ ReadFile(fs0, styleFlag).err = "ENOENT"
       /\ styleFlag = <<"s", "t", "y", "l", "e", "_", "g", "u", "i", "d", "e", ".",
                        "m", "d">>

\* C11: ConvertToBlog returns "transcript too large" for a transcript of more
\* than 500000 bytes before the style guide is read and before the generation
\* backend is started; a transcript of exactly 500000 bytes is accepted; and
\* the backend is started only when the size check and the load of the style
\* guide have both succeeded.
C11_TranscriptSize ==
    /\ (ConvertCalled /\ ByteLen(transcript) > 500000) =>
          /\ pc \in {"cb_size", "cb_returned", "run_returned", "exited"}
          /\ pc # "cb_size" => cbRet.err = <<"transcript too large">>
          /\ styleGuide = <<>>
          /\ prompt = <<>>
          /\ started["claude"] = 0
          /\ running = "none"
    /\ (ConvertCalled /\ ByteLen(transcript) <= 500000) =>
          cbRet.err # <<"transcript too large">>
    /\ (ConvertCalled /\ ByteLen(transcript) = 500000 /\ StyleLoadable
        /\ pc \notin {"cb_size", "cb_style"}) =>
          prompt # <<>>
    /\ (started["claude"] > 0 \/ running = "claude") =>
          /\ ByteLen(transcript) <= 500000
          /\ StyleLoadable
          /\ prompt # <<>>

\* a transcript of 500001 bytes has been refused although the style guide
\* named on the command line does not exist
C11_Witness ==
    /\ pc = "cb_returned"
    /\ ByteLen(transcript) = 500001
    /\ ~StyleLoadable
    /\ cbRet.err = <<"transcript too large">>

\* C13: whenever ConvertToBlog returns without error its result is trimmed
\* already and not empty, so that the trim of run changes nothing and run
\* never fails with "generated blog post is empty"; generation output that
\* is empty when trimmed surfaces as "blog conversion failed: claude CLI
\* returned empty output".
C13_ResultTrimmed ==
    /\ (pc = "cb_returned" /\ cbRet.err = NoErr) =>
          /\ cbRet.val # <<>>
          /\ TrimLeft(cbRet.val) = cbRet.val
          /\ TrimRight(cbRet.val) = cbRet.val
          /\ ~IsSpace(cbRet.val[1])
          /\ ~IsSpace(cbRet.val[Len(cbRet.val)])
    /\ runErr # <<"generated blog post is empty">>
    /\ stderr # <<"generated blog post is empty">>
    /\ (pc \in {"run_returned", "exited"} /\ started["claude"] = 1
        /\ cbRet.err \notin {<<"claude CLI error">>, <<"claude CLI timed out">>}
        /\ \A i \in 1..Len(output) : IsSpace(output[i])) =>
          runErr = <<"blog conversion failed", "claude CLI returned empty output">>

\* ConvertToBlog has returned a result that is shorter than what claude
\* printed: the white space around it is gone
C13_Witness ==
    /\ pc = "cb_returned"
    /\ cbRet.err = NoErr
    /\ cbRet.val # output
    /\ IsSpace(output[1])

(***************************************************************************)
(* internal/transcribe/transcribe.go: TranscribeVideo without timeouts,    *)
(* with the fixed names of its temporary files.  The state is that of one  *)
(* call TranscribeVideo(videoPath, modelSize).                             *)
(***************************************************************************)
\* filepath.Join(tempDir, "video-journal-audio.wav")
OldAudioPath == TempDir \o <<SEP, "video-journal-audio", ".", "w", "a", "v">>

\* filepath.Join(tempDir, "video-journal-transcript")
OldOutputBase == TempDir \o <<SEP, "video-journal-transcript">>

\* the video paths of the calls
OldVideoPaths ==
    { <<"t", "a", "l", "k", ".", "m", "p", "4">>,
      <<"d", "/", "v", ".", "M", "O", "V">>,
      <<"t", "a", "l", "k", ".", "m", "p", "4", "/", "x", ".", "m", "p", "4">>,
      <<"c", "l", "i", "p", ".", "w", "e", "b", "m">> }

\* what the call never touches
oldRest == <<inputs, mainVars, exitCode, stderr, stage, killed, transcript, cbVars,
             runErr>>

InitOld ==
    /\ \E v \in OldVideoPaths, present \in BOOLEAN :
          /\ args = <<v>>
          /\ videoPath = v
          /\ fs = InitialFS(<<v>>, IF present THEN 1 ELSE 0, FALSE, FALSE)
    /\ modelFlag = "base"
    /\ styleFlag = <<>>
    /\ outputFlag = <<>>
    /\ forceFlag = FALSE
    /\ fs0 = fs
    /\ pc = "old_stat"
    /\ outputPath = None
    /\ exitCode = -1
    /\ stderr = NoErr
    /\ stage = "Transcribing"
    /\ started = [p \in Programs |-> 0]
    /\ running = "none"
    /\ killed = {}
    /\ audioPath = None
    /\ outputBase = None
    /\ defers = <<>>
    /\ tvRet = [val |-> <<>>, err |-> NoErr]
    /\ transcript = <<>>
    /\ styleGuide = <<>>
    /\ prompt = <<>>
    /\ output = <<>>
    /\ cbRet = [val |-> <<>>, err |-> NoErr]
    /\ runErr = NoErr

\* return val, err: the deferred calls run next
OldReturn(val, err) ==
    /\ tvRet' = [val |-> val, err |-> err]
    /\ pc' = "old_defers"

\* if _, err := os.Stat(videoPath); os.IsNotExist(err)
OldStatVideo ==
    /\ pc = "old_stat"
    /\ IF IsNotExist(StatErr(fs, videoPath))
       THEN OldReturn(<<>>, <<"video file not found">>)
       ELSE pc' = "old_model" /\ UNCHANGED tvRet
    /\ UNCHANGED <<oldRest, fs, started, running, audioPath, outputBase, defers>>

\* EnsureModel: the model file is in the user's cache or not
OldEnsureModel ==
    /\ pc = "old_model"
    /\ \E present \in BOOLEAN :
          IF ~present THEN OldReturn(<<>>, <<"whisper model not found">>)
          ELSE pc' = "old_find" /\ UNCHANGED tvRet
    /\ UNCHANGED <<oldRest, fs, started, running, audioPath, outputBase, defers>>

\* findWhisperCLI
OldFindWhisperCLI ==
    /\ pc = "old_find"
    /\ \E found \in BOOLEAN :
          IF ~found THEN OldReturn(<<>>, <<"whisper.cpp CLI not found">>)
          ELSE pc' = "old_ffmpeg_start" /\ UNCHANGED tvRet
    /\ UNCHANGED <<oldRest, fs, started, running, audioPath, outputBase, defers>>

\* extractAudio: the fixed audio path, and cmd.Run starts ffmpeg or fails to
OldStartFFmpeg ==
    /\ pc = "old_ffmpeg_start"
    /\ \/ /\ started' = [started EXCEPT !["ffmpeg"] = @ + 1]
          /\ running' = "ffmpeg"
          /\ pc' = "old_ffmpeg_wait"
          /\ UNCHANGED tvRet
       \/ /\ OldReturn(<<>>, <<"ffmpeg audio extraction failed">>)
          /\ UNCHANGED <<started, running>>
    /\ UNCHANGED <<oldRest, fs, audioPath, outputBase, defers>>

\* extractAudio: ffmpeg ends, with or without having made the audio file; on
\* an error the error is returned; else TranscribeVideo defers
\* os.Remove(audioPath) and names the output base
OldFFmpegExit ==
    /\ pc = "old_ffmpeg_wait"
    /\ \E ok \in BOOLEAN, wrote \in BOOLEAN :
          /\ ok => wrote
          /\ running' = "none"
          /\ fs' = IF wrote
                   THEN Put(fs, ElemsOf(OldAudioPath),
                            File(IF ok THEN <<"pcm">> ELSE <<"partial">>))
                   ELSE fs
          /\ IF ok
             THEN /\ audioPath' = OldAudioPath
                  /\ defers' = Append(defers, "os.Remove(audioPath)")
                  /\ outputBase' = OldOutputBase
                  /\ pc' = "old_whisper_start"
                  /\ UNCHANGED tvRet
             ELSE /\ OldReturn(<<>>, <<"ffmpeg audio extraction failed">>)
                  /\ UNCHANGED <<audioPath, outputBase, defers>>
    /\ UNCHANGED <<oldRest, started>>

\* cmd.CombinedOutput starts whisper, or fails to
OldStartWhisper ==
    /\ pc = "old_whisper_start"
    /\ \/ /\ started' = [started EXCEPT !["whisper"] = @ + 1]
          /\ running' = "whisper"
          /\ pc' = "old_whisper_wait"
          /\ UNCHANGED tvRet
       \/ /\ OldReturn(<<>>, <<"whisper transcription failed">>)
          /\ UNCHANGED <<started, running>>
    /\ UNCHANGED <<oldRest, fs, audioPath, outputBase, defers>>

\* whisper ends, with or without having made outputBase.txt; on an error the
\* error is returned; else os.Remove(transcriptPath) is deferred
OldWhisperExit ==
    /\ pc = "old_whisper_wait"
    /\ \E ok \in BOOLEAN, wrote \in BOOLEAN, text \in Transcripts :
          /\ ~wrote => text = <<>>
          /\ ~ok => text = <<>>
          /\ running' = "none"
          /\ fs' = IF wrote THEN Put(fs, ElemsOf(outputBase \o TxtExt), File(text))
                   ELSE fs
          /\ IF ok
             THEN /\ defers' = Append(defers, "os.Remove(transcriptPath)")
                  /\ pc' = "old_read"
                  /\ UNCHANGED tvRet
             ELSE /\ OldReturn(<<>>, <<"whisper transcription failed">>)
                  /\ UNCHANGED defers
    /\ UNCHANGED <<oldRest, started, audioPath, outputBase>>

\* os.ReadFile(transcriptPath), strings.TrimSpace and the empty check
OldReadTranscript ==
    /\ pc = "old_read"
    /\ LET t == TranscriptResult(ReadFile(fs, outputBase \o TxtExt))
       IN  OldReturn(t.val, t.err)
    /\ UNCHANGED <<oldRest, fs, started, running, audioPath, outputBase, defers>>

\* the file system after the deferred call d
OldDeferred(d, fsys) ==
    CASE d = "os.Remove(audioPath)" -> Remove(fsys, audioPath)
      [] d = "os.Remove(transcriptPath)" -> Remove(fsys, outputBase \o TxtExt)

\* a return runs the deferred calls, last registered first
OldRunDefer ==
    /\ pc = "old_defers"
    /\ defers # <<>>
    /\ fs' = OldDeferred(defers[Len(defers)], fs)
    /\ defers' = SubSeq(defers, 1, Len(defers) - 1)
    /\ UNCHANGED <<oldRest, pc, started, running, audioPath, outputBase, tvRet>>

\* the call has returned to run
OldReturned ==
    /\ pc = "old_defers"
    /\ defers = <<>>
    /\ pc' = "old_returned"
    /\ UNCHANGED <<oldRest, fs, started, running, audioPath, outputBase, defers,
                   tvRet>>

NextOld ==
    \/ OldStatVideo
    \/ OldEnsureModel
    \/ OldFindWhisperCLI
    \/ OldStartFFmpeg
    \/ OldFFmpegExit
    \/ OldStartWhisper
    \/ OldWhisperExit
    \/ OldReadTranscript
    \/ OldRunDefer
    \/ OldReturned

SpecOld == InitOld /\ [][NextOld]_vars

\* C14: in the variant of TranscribeVideo without timeouts, neither
\* video-journal-audio.wav nor video-journal-transcript.txt exists in the
\* temporary directory once the call has returned, on any exit path, the
\* failure of ffmpeg after it made the audio file and the failure of whisper
\* after it made the transcript file included.
C14_OldTempFilesRemoved ==
    pc = "old_returned" =>
        /\ StatErr(fs, TempDir \o <<SEP, "video-journal-audio", ".", "w", "a", "v">>)
               = "ENOENT"
        /\ StatErr(fs, TempDir \o <<SEP, "video-journal-transcript", ".", "t", "x",
                                    "t">>) = "ENOENT"

(***************************************************************************)
(* Two concurrent calls of TranscribeVideo, the variant with timeouts, in  *)
(* one temporary directory.  pc, videoPath, audioPath, outputBase, defers  *)
(* and tvRet hold one value for each call; every step is a step of one     *)
(* call, and the steps of the two interleave freely.                       *)
(***************************************************************************)
Calls == {1, 2}

\* the video each call is given
CallVideo(i) == IF i = 1 THEN <<"t", "a", "l", "k", ".", "m", "p", "4">> ELSE <<"d", "/", "v", ".", "M", "O", "V">>

\* the audio ffmpeg extracts from the video of call i
AudioOf(i) == <<"pcm of video", ToString(i)>>

\* what the calls never touch
pairRest == <<inputs, mainVars, exitCode, stderr, stage, procVars, transcript, cbVars,
              runErr>>

InitPair ==
    /\ args = <<>>
    /\ modelFlag = "base"
    /\ styleFlag = <<>>
    /\ outputFlag = <<>>
    /\ forceFlag = FALSE
    /\ \E present \in [Calls -> BOOLEAN] :
          fs = WithFiles(BaseFS, {CallVideo(i) : i \in {j \in Calls : present[j]}},
                         [kind |-> "file", data |-> <<"video">>, size |-> 1])
    /\ fs0 = fs
    /\ pc = [i \in Calls |-> "tv_stat"]
    /\ videoPath = [i \in Calls |-> CallVideo(i)]
    /\ outputPath = None
    /\ exitCode = -1
    /\ stderr = NoErr
    /\ stage = "Transcribing"
    /\ started = [p \in Programs |-> 0]
    /\ running = "none"
    /\ killed = {}
    /\ audioPath = [i \in Calls |-> None]
    /\ outputBase = [i \in Calls |-> None]
    /\ defers = [i \in Calls |-> <<>>]
    /\ tvRet = [i \in Calls |-> [val |-> <<>>, err |-> NoErr]]
    /\ transcript = <<>>
    /\ styleGuide = <<>>
    /\ prompt = <<>>
    /\ output = <<>>
    /\ cbRet = [val |-> <<>>, err |-> NoErr]
    /\ runErr = NoErr

\* call i goes to position p
Goto(i, p) == pc' = [pc EXCEPT ![i] = p]

\* call i returns val, err: its deferred calls run next
PairReturn(i, val, err) ==
    /\ tvRet' = [tvRet EXCEPT ![i] = [val |-> val, err |-> err]]
    /\ Goto(i, "tv_defers")

\* the check of the video file
PairStatVideo(i) ==
    /\ pc[i] = "tv_stat"
    /\ IF VideoError(fs, videoPath[i]) # NoErr
       THEN PairReturn(i, <<>>, VideoError(fs, videoPath[i]))
       ELSE Goto(i, "tv_model") /\ UNCHANGED tvRet
    /\ UNCHANGED <<pairRest, fs, audioPath, outputBase, defers>>

\* EnsureModel and findWhisperCLI, then the ffmpeg context and its deferred
\* cancel
PairFindTools(i) ==
    /\ pc[i] = "tv_model"
    /\ \E model \in BOOLEAN, cli \in BOOLEAN :
          IF ~model
          THEN PairReturn(i, <<>>, <<"whisper model not found">>) /\ UNCHANGED defers
          ELSE IF ~cli
          THEN PairReturn(i, <<>>, <<"whisper.cpp CLI not found">>) /\ UNCHANGED defers
          ELSE /\ defers' = [defers EXCEPT ![i] = Append(@, "ffmpegCancel")]
               /\ Goto(i, "ea_create")
               /\ UNCHANGED tvRet
    /\ UNCHANGED <<pairRest, fs, audioPath, outputBase>>

\* a CreateTemp that takes a name whether or not a file has it
CreateTempAnyName(fsys, path) == TRUE

\* os.CreateTemp opens with O_CREATE|O_EXCL: it can make path only if no file
\* has the name
CreateTempCanMake(fsys, path) == StatErr(fsys, path) = "ENOENT"

\* extractAudio: os.CreateTemp of the audio file
PairCreateAudio(i) ==
    /\ pc[i] = "ea_create"
    /\ \/ /\ PairReturn(i, <<>>, <<"failed to create temp audio file">>)
          /\ UNCHANGED <<fs, audioPath>>
       \/ \E n \in 1..MaxTemp :
             /\ CreateTempCanMake(fs, AudioTempPath(n))
             /\ audioPath' = [audioPath EXCEPT ![i] = AudioTempPath(n)]
             /\ fs' = Put(fs, ElemsOf(AudioTempPath(n)), File(<<>>))
             /\ Goto(i, "ea_wait")
             /\ UNCHANGED tvRet
    /\ UNCHANGED <<pairRest, outputBase, defers>>

\* extractAudio: cmd.Run ends.  ffmpeg has written the audio of the video to
\* audioPath, or part of it, or cmd.Run has failed without a write
PairFFmpegExit(i) ==
    /\ pc[i] = "ea_wait"
    /\ \E ending \in Endings, wrote \in BOOLEAN :
          /\ ending.status = "ok" => wrote
          /\ fs' = IF wrote
                   THEN Put(fs, ElemsOf(audioPath[i]),
                            File(IF ending.status = "ok" THEN AudioOf(i)
                                 ELSE <<"part of">> \o AudioOf(i)))
                   ELSE fs
          /\ IF ending.status = "ok"
             THEN /\ defers' = [defers EXCEPT ![i] = Append(@, "audioCleanup")]
                  /\ Goto(i, "tv_create_output")
                  /\ UNCHANGED tvRet
             ELSE /\ tvRet' = [tvRet EXCEPT ![i] =
                                 [val |-> <<>>, err |-> FFmpegError(ending.ctxExpired)]]
                  /\ Goto(i, "ea_cleanup")
                  /\ UNCHANGED defers
    /\ UNCHANGED <<pairRest, audioPath, outputBase>>

\* extractAudio: cleanup() before the error is returned
PairCleanupOnError(i) ==
    /\ pc[i] = "ea_cleanup"
    /\ fs' = audioCleanup(fs, audioPath[i])
    /\ Goto(i, "tv_defers")
    /\ UNCHANGED <<pairRest, audioPath, outputBase, defers, tvRet>>

\* os.CreateTemp of the transcript placeholder
PairCreateOutput(i) ==
    /\ pc[i] = "tv_create_output"
    /\ \/ /\ PairReturn(i, <<>>, <<"failed to create temp output file">>)
          /\ UNCHANGED <<fs, outputBase>>
       \/ \E n \in 1..MaxTemp :
             /\ CreateTempCanMake(fs, TranscriptTempPath(n))
             /\ outputBase' = [outputBase EXCEPT ![i] = TranscriptTempPath(n)]
             /\ fs' = Put(fs, ElemsOf(TranscriptTempPath(n)), File(<<>>))
             /\ Goto(i, "tv_remove_placeholder")
             /\ UNCHANGED tvRet
    /\ UNCHANGED <<pairRest, audioPath, defers>>

\* os.Remove(outputBase), then the deferred cleanupWhisperOutputs, the
\* whisper context and its deferred cancel
PairRemovePlaceholder(i) ==
    /\ pc[i] = "tv_remove_placeholder"
    /\ fs' = Remove(fs, outputBase[i])
    /\ defers' = [defers EXCEPT ![i] = @ \o <<"cleanupWhisperOutputs", "whisperCancel">>]
    /\ Goto(i, "tv_whisper_wait")
    /\ UNCHANGED <<pairRest, audioPath, outputBase, tvRet>>

\* cmd.CombinedOutput ends: whisper has read audioPath and has or has not
\* written outputBase.txt
PairWhisperExit(i) ==
    /\ pc[i] = "tv_whisper_wait"
    /\ \E ending \in Endings, wrote \in BOOLEAN :
          /\ fs' = IF wrote
                   THEN Put(fs, ElemsOf(outputBase[i] \o TxtExt),
                            File(<<"words of">> \o ReadFile(fs, audioPath[i]).data))
                   ELSE fs
          /\ IF ending.status = "ok"
             THEN Goto(i, "tv_read") /\ UNCHANGED tvRet
             ELSE PairReturn(i, <<>>, WhisperError(ending.ctxExpired))
    /\ UNCHANGED <<pairRest, audioPath, outputBase, defers>>

\* os.ReadFile of the transcript, strings.TrimSpace and the empty check
PairReadTranscript(i) ==
    /\ pc[i] = "tv_read"
    /\ LET t == TranscriptResult(ReadFile(fs, outputBase[i] \o TxtExt))
       IN  PairReturn(i, t.val, t.err)
    /\ UNCHANGED <<pairRest, fs, audioPath, outputBase, defers>>

\* the file system after the deferred call d of call i
PairDeferred(i, d, fsys) ==
    CASE d = "cleanupWhisperOutputs" ->
             cleanupWhisperOutputs(fsys, outputBase[i], extensions)
      [] d = "audioCleanup" -> audioCleanup(fsys, audioPath[i])
      [] OTHER -> fsys    \* a context's cancel

\* a return of call i runs its deferred calls, last registered first
PairRunDefer(i) ==
    /\ pc[i] = "tv_defers"
    /\ defers[i] # <<>>
    /\ fs' = PairDeferred(i, defers[i][Len(defers[i])], fs)
    /\ defers' = [defers EXCEPT ![i] = SubSeq(@, 1, Len(@) - 1)]
    /\ UNCHANGED <<pairRest, pc, audioPath, outputBase, tvRet>>

\* call i has returned to its caller
PairReturned(i) ==
    /\ pc[i] = "tv_defers"
    /\ defers[i] = <<>>
    /\ Goto(i, "returned")
    /\ UNCHANGED <<pairRest, fs, audioPath, outputBase, defers, tvRet>>

NextPair ==
    \/ \E i \in Calls : PairStatVideo(i)
    \/ \E i \in Calls : PairFindTools(i)
    \/ \E i \in Calls : PairCreateAudio(i)
    \/ \E i \in Calls : PairFFmpegExit(i)
    \/ \E i \in Calls : PairCleanupOnError(i)
    \/ \E i \in Calls : PairCreateOutput(i)
    \/ \E i \in Calls : PairRemovePlaceholder(i)
    \/ \E i \in Calls : PairWhisperExit(i)
    \/ \E i \in Calls : PairReadTranscript(i)
    \/ \E i \in Calls : PairRunDefer(i)
    \/ \E i \in Calls : PairReturned(i)

SpecPair == InitPair /\ [][NextPair]_vars

\* call i holds its audio file: os.CreateTemp has made it and the call has
\* not yet run the cleanup that removes it
Held(i) ==
    \/ pc[i] \in {"ea_wait", "ea_cleanup"}
    \/ \E k \in 1..Len(defers[i]) : defers[i][k] = "audioCleanup"

\* the audio files in the temporary directory
AudioFiles == {n \in 1..MaxTemp : StatErr(fs, AudioTempPath(n)) = "ok"}

\* the statement without a limit in time: the audio paths of the two calls
\* differ, a call that has extracted its audio finds it in its file, and the
\* path of a call that has returned names no file
C12_ExclusiveOwnership ==
    \A i \in Calls :
        /\ \A j \in Calls \ {i} :
              (audioPath[i] # None /\ audioPath[j] # None) =>
                  audioPath[i] # audioPath[j]
        /\ pc[i] \in {"tv_create_output", "tv_remove_placeholder", "tv_whisper_wait",
                      "tv_read"} =>
              ReadFile(fs, audioPath[i]) = [err |-> "ok", data |-> AudioOf(i)]
        /\ (pc[i] = "returned" /\ audioPath[i] # None) =>
              StatErr(fs, audioPath[i]) = "ENOENT"

\* in every state: two calls that hold audio files hold different paths; the
\* file of a call that holds one exists, and holds the audio of its own video
\* once ffmpeg has succeeded, so that whisper reads nothing else; every audio
\* file in the temporary directory is held by a call that has not returned
HeldInv ==
    /\ \A i \in Calls :
          /\ \A j \in Calls \ {i} :
                (Held(i) /\ Held(j)) => audioPath[i] # audioPath[j]
          /\ Held(i) => /\ pc[i] # "returned"
                        /\ StatErr(fs, audioPath[i]) = "ok"
          /\ (Held(i) /\ pc[i] \notin {"ea_wait", "ea_cleanup"}) =>
                ReadFile(fs, audioPath[i]).data = AudioOf(i)
          /\ pc[i] = "returned" => ~Held(i)
    /\ \A n \in AudioFiles :
          \E i \in Calls : Held(i) /\ audioPath[i] = AudioTempPath(n)

\* in every step: the audio file of a call that holds one and does not take
\* the step is left as it is
HeldStep ==
    \A j \in Calls :
        (Held(j) /\ pc'[j] = pc[j] /\ defers'[j] = defers[j]) =>
            /\ audioPath'[j] = audioPath[j]
            /\ ReadFile(fs', audioPath[j]) = ReadFile(fs, audioPath[j])

\* C12: each temporary audio file is owned by the TranscribeVideo call that
\* created it, from its creation to the cleanup of that call: under every
\* interleaving of two concurrent calls, two calls that hold audio files hold
\* different paths, no step of one call overwrites or deletes the file the
\* other holds, whisper reads the audio of its own call, and every call has
\* deleted its own audio file when it returns.
C12_OwnedWhileHeld == [](HeldInv) /\ [][HeldStep]_vars

\* both calls hold an audio file at once, each with the audio of its own
\* video in it
C12_Witness ==
    /\ pc[1] = "tv_whisper_wait"
    /\ pc[2] = "tv_whisper_wait"
    /\ Held(1) /\ Held(2)
    /\ ReadFile(fs, audioPath[1]).data = AudioOf(1)
    /\ ReadFile(fs, audioPath[2]).data = AudioOf(2)

=============================================================================
